---- MODULE Spec2Model ----
(***************************************************************************)
(* Server core of the two-player Pong game: the room store (RoomManager),  *)
(* the per-room tick loop (GameEngine), the ball physics (BallPhysics) and *)
(* the socket command handlers (SocketHandler).                            *)
(*                                                                         *)
(* Lengths are in tenths of a pixel and velocities in tenths of a pixel    *)
(* per second, so that the ball radius (7.5 px) is an integer; a tick's    *)
(* elapsed time is in milliseconds.  Divisions truncate toward zero.       *)
(*                                                                         *)
(* Room objects live in a heap and are named by their slot: the interval   *)
(* and timeout closures of the engine keep a reference to the room object  *)
(* they were created for, also after the store has dropped it.  An object  *)
(* that neither the store nor a closure references is garbage: its slot is *)
(* cleared and reused.                                                     *)
(* Timestamps (lastUpdate, createdAt, lastUpdateTimes) are left out; the   *)
(* time elapsed between two ticks is an input of the tick, and a pending   *)
(* timeout may fire at any later step.                                     *)
(***************************************************************************)
EXTENDS Integers, Sequences, FiniteSets, TLC

\* ------------------------------------------------------------------ bounds
\* room objects alive at the same time
MaxInst == 3
\* interval callbacks that run back to back, with no other event in between:
\* the first count at which a freshly reset ball can have left the field
Frames == 22

Players == {"p1", "p2", "p3"}
RoomNames == {"a", "b"}
NoName == ""
NoPlayer == "none"

\* ------------------------------------------------------- program constants
\* n pixels (or pixels per second) in the model's unit, a tenth of a pixel
Px(n) == n * 10

Width == Px(800)
Height == Px(400)
PaddleWidth == Px(15)
PaddleHeight == Px(80)
PaddleOffset == Px(30)
BallSize == Px(15)
INITIAL_SPEED == Px(200)
SPEED_INCREASE == Px(20)
MAX_SPEED == Px(400)
MAX_PLAYERS == 2
WINNING_SCORE == 5
\* updateGame skips a tick whose elapsed time exceeds 0.1 s
StaleDelta == 100
\* the delays of handleScoring's two timeouts, in ms
END_DELAY == 1500
RESUME_DELAY == 2000
JoinPaddleY == Px(250)
LobbyPaddleY == Px(160)
MaxPaddleY == Px(320)

\* ------------------------------------------------------------- arithmetic
Abs(n) == IF n < 0 THEN -n ELSE n

Sign(n) == IF n < 0 THEN -1 ELSE IF n > 0 THEN 1 ELSE 0

Min(a, b) == IF a < b THEN a ELSE b

\* a / b for b > 0, truncated toward zero
Quot(a, b) == IF a >= 0 THEN a \div b ELSE -((-a) \div b)

\* ---------------------------------------------------------------- physics
BallRadius == BallSize \div 2

MkBall(x, y, vx, vy, s) ==
  [x |-> x, y |-> y, velocityX |-> vx, velocityY |-> vy, speed |-> s]

\* the unit directions resetBall's random angle is sampled from: cos and sin
\* (in 1/25) of the angle 0.2838 rad, inside [0.2, 0.8]
ResetAngles == {<<24, 7>>}

\* the values resetBall can return
ResetBalls ==
  { MkBall(Width \div 2, Height \div 2,
           d * Quot(INITIAL_SPEED * a[1], 25),
           s * Quot(INITIAL_SPEED * a[2], 25),
           INITIAL_SPEED) : d \in {-1, 1}, s \in {-1, 1}, a \in ResetAngles }

\* checkWallCollisions that turns the ball and leaves it where it is
checkWallCollisions_NoClamp(ball) ==
  LET b1 == IF ball.y - BallRadius <= 0
            THEN [ball EXCEPT !.velocityY = Abs(ball.velocityY)]
            ELSE ball
  IN IF b1.y + BallRadius >= Height
     THEN [b1 EXCEPT !.velocityY = -Abs(b1.velocityY)]
     ELSE b1

checkWallCollisions(ball) ==
  LET b1 == IF ball.y - BallRadius <= 0
            THEN [ball EXCEPT !.y = BallRadius,
                              !.velocityY = Abs(ball.velocityY)]
            ELSE ball
  IN IF b1.y + BallRadius >= Height
     THEN [b1 EXCEPT !.y = Height - BallRadius,
                     !.velocityY = -Abs(b1.velocityY)]
     ELSE b1

updateBallPosition(ball, deltaTime) ==
  checkWallCollisions(
    [ball EXCEPT !.x = ball.x + Quot(ball.velocityX * deltaTime, 1000),
                 !.y = ball.y + Quot(ball.velocityY * deltaTime, 1000)])

\* checkScoringCollisions that reports a ball whose edge touches the boundary
checkScoringCollisions_Touching(ball) ==
  IF ball.x + BallRadius <= 0 THEN "left"
  ELSE IF ball.x - BallRadius >= Width THEN "right"
  ELSE "null"

checkScoringCollisions(ball) ==
  IF ball.x + BallRadius < 0 THEN "left"
  ELSE IF ball.x - BallRadius > Width THEN "right"
  ELSE "null"

\* increaseBallSpeed without the cap at MAX_SPEED
increaseBallSpeed_NoCap(ball) ==
  LET newSpeed == ball.speed + SPEED_INCREASE
  IN [ball EXCEPT !.velocityX = Quot(ball.velocityX * newSpeed, ball.speed),
                  !.velocityY = Quot(ball.velocityY * newSpeed, ball.speed),
                  !.speed = newSpeed]

increaseBallSpeed(ball) ==
  LET newSpeed == Min(ball.speed + SPEED_INCREASE, MAX_SPEED)
  IN [ball EXCEPT !.velocityX = Quot(ball.velocityX * newSpeed, ball.speed),
                  !.velocityY = Quot(ball.velocityY * newSpeed, ball.speed),
                  !.speed = newSpeed]

\* vertical velocity after a hit on the paddle whose top is paddleTop
DeflectY(ball, paddleTop) ==
  LET paddleCenter == paddleTop + PaddleHeight \div 2
      vy == Quot((ball.y - paddleCenter) * ball.speed * 7,
                 (PaddleHeight \div 2) * 10)
      minV == Quot(ball.speed, 5)
  IN IF Abs(vy) < minV THEN Sign(vy) * minV ELSE vy

\* the ball after checkPaddleCollisions, and whether a paddle was hit
checkPaddleCollisions(ball, players) ==
  IF Len(players) < 2 THEN [ball |-> ball, hit |-> FALSE]
  ELSE
    LET ballLeft == ball.x - BallRadius
        ballRight == ball.x + BallRadius
        ballTop == ball.y - BallRadius
        ballBottom == ball.y + BallRadius
        lLeft == PaddleOffset
        lRight == PaddleOffset + PaddleWidth
        lTop == players[1].paddleY
        hitL == /\ ballLeft <= lRight /\ ballRight >= lLeft
                /\ ballBottom >= lTop /\ ballTop <= lTop + PaddleHeight
                /\ ball.velocityX < 0
        b1 == IF hitL
              THEN [ball EXCEPT !.velocityX = Abs(ball.velocityX),
                                !.velocityY = DeflectY(ball, lTop),
                                !.x = lRight + BallRadius]
              ELSE ball
        rLeft == Width - PaddleOffset - PaddleWidth
        rRight == Width - PaddleOffset
        rTop == players[2].paddleY
        hitR == /\ ballLeft <= rRight /\ ballRight >= rLeft
                /\ ballBottom >= rTop /\ ballTop <= rTop + PaddleHeight
                /\ b1.velocityX > 0
        b2 == IF hitR
              THEN [b1 EXCEPT !.velocityX = -Abs(b1.velocityX),
                              !.velocityY = DeflectY(b1, rTop),
                              !.x = rLeft - BallRadius]
              ELSE b1
    IN [ball |-> IF hitL \/ hitR THEN increaseBallSpeed(b2) ELSE b2,
        hit |-> hitL \/ hitR]

\* --------------------------------------------------------------- the state
VARIABLES
  heap,        \* the room objects, by slot
  rooms,       \* RoomManager.rooms: the slots of the rooms in the store, in
               \* the Map's insertion order
  gameLoops,   \* GameEngine.gameLoops: room name -> the room object its
               \* interval callback updates, 0 when no loop is registered
  timers,      \* the pending setTimeout continuations of handleScoring
  connected,   \* the sockets that have not disconnected
  out          \* the events the last handler or callback emitted, in order

vars == <<heap, rooms, gameLoops, timers, connected, out>>

ToSocket(e, p) == [ev |-> e, scope |-> "socket", dest |-> p, except |-> NoPlayer]

ToRoom(e, n) == [ev |-> e, scope |-> "room", dest |-> n, except |-> NoPlayer]

ToOthers(e, n, p) == [ev |-> e, scope |-> "others", dest |-> n, except |-> p]

SeqToSet(s) == {s[i] : i \in 1..Len(s)}

Ids(players) == {players[i].id : i \in 1..Len(players)}

\* Array.findIndex by player id, 0 when absent
IndexOf(players, p) ==
  IF p \in Ids(players)
  THEN CHOOSE i \in 1..Len(players) :
         players[i].id = p /\ \A j \in 1..(i - 1) : players[j].id # p
  ELSE 0

\* Array.splice(i, 1)
RemoveAt(s, i) == [j \in 1..(Len(s) - 1) |-> IF j < i THEN s[j] ELSE s[j + 1]]

\* ------------------------------------------------------------ the heap
Slots == 1..MaxInst

FreeSlot ==
  [name |-> NoName, players |-> <<>>, ball |-> MkBall(0, 0, 0, 0, 0),
   gameStatus |-> "collected", winner |-> NoPlayer]

\* the room objects the store, a loop closure or a timeout closure references
Live(rs, loops, ts) ==
  SeqToSet(rs) \cup {loops[n] : n \in DOMAIN loops} \cup {t.room : t \in ts}

Collect(h, rs, loops, ts) ==
  [i \in Slots |-> IF i \in Live(rs, loops, ts) THEN h[i] ELSE FreeSlot]

HasFreeSlot == \E i \in Slots : heap[i] = FreeSlot

\* the state after a handler: the garbage is collected
Commit(h, rs, loops, ts, events) ==
  /\ heap' = Collect(h, rs, loops, ts)
  /\ rooms' = rs
  /\ gameLoops' = loops
  /\ timers' = ts
  /\ out' = events

\* ------------------------------------------------------------ RoomManager
createInitialGameState(roomName) ==
  [name |-> roomName,
   players |-> <<>>,
   ball |-> MkBall(Px(400), Px(300), Px(5), Px(3), Px(5)),
   gameStatus |-> "waiting",
   winner |-> NoPlayer]

\* the room stored under roomName, 0 when there is none
findRoomByName(h, rs, roomName) ==
  IF \E i \in 1..Len(rs) : h[rs[i]].name = roomName
  THEN rs[CHOOSE i \in 1..Len(rs) : h[rs[i]].name = roomName]
  ELSE 0

\* the first room, in the Map's order, that lists the player, else 0
findRoomByPlayerId(h, rs, p) ==
  IF \E i \in 1..Len(rs) : p \in Ids(h[rs[i]].players)
  THEN rs[CHOOSE i \in 1..Len(rs) :
            /\ p \in Ids(h[rs[i]].players)
            /\ \A j \in 1..(i - 1) : p \notin Ids(h[rs[j]].players)]
  ELSE 0

\* createRoom on a free name: a new object, appended to the store
createRoom(h, rs, roomName) ==
  LET slot == CHOOSE i \in Slots :
                h[i] = FreeSlot /\ \A j \in 1..(i - 1) : h[j] # FreeSlot
  IN [heap |-> [h EXCEPT ![slot] = createInitialGameState(roomName)],
      rooms |-> Append(rs, slot),
      room |-> slot]

\* joinOrCreateRoom without its capacity check
joinOrCreateRoom_NoCapacity(h, rs, roomName, player) ==
  LET c == IF findRoomByName(h, rs, roomName) = 0
           THEN createRoom(h, rs, roomName)
           ELSE [heap |-> h, rooms |-> rs,
                 room |-> findRoomByName(h, rs, roomName)]
      r == c.room
      ps == c.heap[r].players
  IN IF player.id \in Ids(ps)
     THEN c @@ [thrown |-> "none"]
     ELSE [c EXCEPT !.heap[r].players = Append(ps, player),
                    !.heap[r].gameStatus =
                       IF Len(ps) + 1 = MAX_PLAYERS THEN "ready" ELSE @]
          @@ [thrown |-> "none"]

\* joinOrCreateRoom without its check for a player already in the room
joinOrCreateRoom_NoExisting(h, rs, roomName, player) ==
  LET c == IF findRoomByName(h, rs, roomName) = 0
           THEN createRoom(h, rs, roomName)
           ELSE [heap |-> h, rooms |-> rs,
                 room |-> findRoomByName(h, rs, roomName)]
      r == c.room
      ps == c.heap[r].players
  IN IF Len(ps) >= MAX_PLAYERS
     THEN [c EXCEPT !.room = 0] @@ [thrown |-> "full"]
     ELSE [c EXCEPT !.heap[r].players = Append(ps, player),
                    !.heap[r].gameStatus =
                       IF Len(ps) + 1 = MAX_PLAYERS THEN "ready" ELSE @]
          @@ [thrown |-> "none"]

\* thrown is "full" when the capacity check throws, else "none"
joinOrCreateRoom(h, rs, roomName, player) ==
  LET c == IF findRoomByName(h, rs, roomName) = 0
           THEN createRoom(h, rs, roomName)
           ELSE [heap |-> h, rooms |-> rs,
                 room |-> findRoomByName(h, rs, roomName)]
      r == c.room
      ps == c.heap[r].players
  IN IF Len(ps) >= MAX_PLAYERS
     THEN [c EXCEPT !.room = 0] @@ [thrown |-> "full"]
     ELSE IF player.id \in Ids(ps)
     THEN c @@ [thrown |-> "none"]
     ELSE [c EXCEPT !.heap[r].players = Append(ps, player),
                    !.heap[r].gameStatus =
                       IF Len(ps) + 1 = MAX_PLAYERS THEN "ready" ELSE @]
          @@ [thrown |-> "none"]

\* removePlayerFromRoom without its status update
removePlayerFromRoom_KeepStatus(h, rs, p) ==
  LET r == findRoomByPlayerId(h, rs, p)
  IN IF r = 0 THEN [heap |-> h, rooms |-> rs, room |-> 0]
     ELSE
       LET ps == RemoveAt(h[r].players, IndexOf(h[r].players, p))
           h1 == [h EXCEPT ![r].players = ps]
       IN IF Len(ps) = 0
          THEN [heap |-> h1, rooms |-> SelectSeq(rs, LAMBDA i : i # r),
                room |-> 0]
          ELSE [heap |-> h1, rooms |-> rs, room |-> r]

\* removePlayerFromRoom without its clean-up of the empty room
removePlayerFromRoom_KeepEmpty(h, rs, p) ==
  LET r == findRoomByPlayerId(h, rs, p)
  IN IF r = 0 THEN [heap |-> h, rooms |-> rs, room |-> 0]
     ELSE
       LET ps == RemoveAt(h[r].players, IndexOf(h[r].players, p))
           h1 == [h EXCEPT ![r].players = ps,
                           ![r].gameStatus =
                              IF Len(ps) < MAX_PLAYERS THEN "waiting" ELSE @]
       IN [heap |-> h1, rooms |-> rs, room |-> r]

\* room is the room returned, 0 for null
removePlayerFromRoom(h, rs, p) ==
  LET r == findRoomByPlayerId(h, rs, p)
  IN IF r = 0 THEN [heap |-> h, rooms |-> rs, room |-> 0]
     ELSE
       LET ps == RemoveAt(h[r].players, IndexOf(h[r].players, p))
           h1 == [h EXCEPT ![r].players = ps,
                           ![r].gameStatus =
                              IF Len(ps) < MAX_PLAYERS THEN "waiting" ELSE @]
       IN IF Len(ps) = 0
          THEN [heap |-> h1, rooms |-> SelectSeq(rs, LAMBDA i : i # r),
                room |-> 0]
          ELSE [heap |-> h1, rooms |-> rs, room |-> r]

\* ------------------------------------------------------------- GameEngine
stopGame(loops, roomName) == [loops EXCEPT ![roomName] = 0]

\* canStartGame without its test of the status
canStartGame_AnyStatus(room) ==
  /\ Len(room.players) = 2
  /\ \A i \in 1..Len(room.players) : room.players[i].isReady

canStartGame(room) ==
  /\ Len(room.players) = 2
  /\ \A i \in 1..Len(room.players) : room.players[i].isReady
  /\ room.gameStatus = "ready"

\* startGame without its check for a registered loop
startGameRuns_NoLoopCheck(room, loops) ==
  Len(room.players) >= 2

\* startGame returns early when a loop is registered under the room's name
\* or a player is missing
startGameRuns(room, loops) ==
  loops[room.name] = 0 /\ Len(room.players) >= 2

\* startGame without its reset of the scores
startGame_KeepScores(room, ball) ==
  [room EXCEPT !.gameStatus = "playing",
               !.ball = ball,
               !.players = [i \in 1..Len(room.players) |->
                              [room.players[i] EXCEPT !.isReady = TRUE]]]

\* the room object after startGame, past the early returns
startGame(room, ball) ==
  [room EXCEPT !.gameStatus = "playing",
               !.ball = ball,
               !.players = [i \in 1..Len(room.players) |->
                              [room.players[i] EXCEPT !.score = 0,
                                                      !.isReady = TRUE]]]

\* endGame without its reset of the ready flags
endGame_KeepReady(room, winnerId) ==
  [room EXCEPT !.gameStatus = "finished",
               !.winner = winnerId]

\* the room object after endGame
endGame(room, winnerId) ==
  [room EXCEPT !.gameStatus = "finished",
               !.winner = winnerId,
               !.players = [i \in 1..Len(room.players) |->
                              [room.players[i] EXCEPT !.isReady = FALSE]]]

\* handleScoring crediting the player on the side the ball left
ScorerIndex_SameSide(side) == IF side = "left" THEN 1 ELSE 2

\* the player handleScoring credits: players[1] for "left", players[0] for
\* "right" in the source's 0-based indices
ScorerIndex(side) == IF side = "left" THEN 2 ELSE 1

\* the room object after handleScoring's score increment and ball reset
handleScoring(room, side, ball) ==
  [room EXCEPT !.players[ScorerIndex(side)].score = @ + 1,
               !.ball = ball]

\* the timeout handleScoring schedules for room object r, given the room
\* after the increment
ScoringTimer(r, room, side) ==
  IF room.players[ScorerIndex(side)].score >= WINNING_SCORE
  THEN [kind |-> "end", room |-> r,
        winner |-> room.players[ScorerIndex(side)].id]
  ELSE [kind |-> "resume", room |-> r, winner |-> NoPlayer]

\* ------------------------------------------------------------------- Init
Init ==
  /\ heap = [i \in Slots |-> FreeSlot]
  /\ rooms = <<>>
  /\ gameLoops = [n \in RoomNames |-> 0]
  /\ timers = {}
  /\ connected = Players
  /\ out = <<>>

\* ---------------------------------------------------------- SocketHandler
NewPlayer(p) ==
  [id |-> p, paddleY |-> JoinPaddleY, score |-> 0, isReady |-> FALSE]

\* handleJoinRoom with room-full broadcast to the room
JoinEvents_Broadcast(p, n, thrown) ==
  IF thrown = "full"
  THEN <<ToRoom("room-full", n)>>
  ELSE <<ToSocket("room-joined", p), ToOthers("player-joined", n, p)>>

\* the events handleJoinRoom emits after joinOrCreateRoom returned or threw
JoinEvents(p, n, thrown) ==
  IF thrown = "full"
  THEN <<ToSocket("room-full", p)>>
  ELSE <<ToSocket("room-joined", p), ToOthers("player-joined", n, p)>>

handleJoinRoom(p, n) ==
  /\ p \in connected
  /\ UNCHANGED connected
  /\ IF n = NoName
     THEN Commit(heap, rooms, gameLoops, timers, <<ToSocket("room-error", p)>>)
     ELSE
       /\ findRoomByName(heap, rooms, n) = 0 => HasFreeSlot
       /\ LET j == joinOrCreateRoom(heap, rooms, n, NewPlayer(p))
              h1 == IF j.thrown = "none"
                       /\ Len(j.heap[j.room].players) = MAX_PLAYERS
                    THEN [j.heap EXCEPT ![j.room].gameStatus = "ready"]
                    ELSE j.heap
          IN Commit(h1, j.rooms, gameLoops, timers, JoinEvents(p, n, j.thrown))

handleLeaveRoom(p) ==
  /\ p \in connected
  /\ UNCHANGED connected
  /\ LET r == findRoomByPlayerId(heap, rooms, p)
         rm == removePlayerFromRoom(heap, rooms, p)
     IN IF r = 0
        THEN Commit(heap, rooms, gameLoops, timers, <<>>)
        ELSE Commit(rm.heap, rm.rooms, stopGame(gameLoops, heap[r].name), timers,
                    <<ToSocket("room-left", p)>> \o
                    (IF rm.room # 0
                     THEN <<ToOthers("player-left", heap[r].name, p)>>
                     ELSE <<>>))

handleDisconnect(p) ==
  /\ p \in connected
  /\ connected' = connected \ {p}
  /\ LET r == findRoomByPlayerId(heap, rooms, p)
         rm == removePlayerFromRoom(heap, rooms, p)
         h1 == IF rm.room # 0 /\ Len(rm.heap[rm.room].players) < MAX_PLAYERS
               THEN [rm.heap EXCEPT ![rm.room].gameStatus = "waiting"]
               ELSE rm.heap
     IN IF r = 0
        THEN Commit(heap, rooms, gameLoops, timers, <<>>)
        ELSE Commit(h1, rm.rooms, stopGame(gameLoops, heap[r].name), timers,
                    IF rm.room # 0
                    THEN <<ToOthers("player-left", heap[r].name, p)>>
                    ELSE <<>>)

\* handlePaddleMove without its validation of the position
handlePaddleMove_NoCheck(p, paddleY) ==
  /\ p \in connected
  /\ UNCHANGED connected
  /\ LET r == findRoomByPlayerId(heap, rooms, p)
     IN IF r = 0
        THEN Commit(heap, rooms, gameLoops, timers, <<>>)
        ELSE Commit([heap EXCEPT
                       ![r].players[IndexOf(heap[r].players, p)].paddleY = paddleY],
                    rooms, gameLoops, timers,
                    <<ToOthers("paddle-moved", heap[r].name, p)>>)

handlePaddleMove(p, paddleY) ==
  /\ p \in connected
  /\ UNCHANGED connected
  /\ LET r == findRoomByPlayerId(heap, rooms, p)
     IN IF paddleY < 0 \/ paddleY > MaxPaddleY \/ r = 0
        THEN Commit(heap, rooms, gameLoops, timers, <<>>)
        ELSE Commit([heap EXCEPT
                       ![r].players[IndexOf(heap[r].players, p)].paddleY = paddleY],
                    rooms, gameLoops, timers,
                    <<ToOthers("paddle-moved", heap[r].name, p)>>)

\* ball is the ball resetBall draws if the command starts the game
handlePlayerReady(p, isReady, ball) ==
  /\ p \in connected
  /\ UNCHANGED connected
  /\ LET r == findRoomByPlayerId(heap, rooms, p)
     IN IF r = 0
        THEN Commit(heap, rooms, gameLoops, timers, <<>>)
        ELSE
          LET room == [heap[r] EXCEPT
                         !.players[IndexOf(heap[r].players, p)].isReady = isReady]
              starts == /\ Len(room.players) = 2
                        /\ \A i \in 1..Len(room.players) : room.players[i].isReady
                        /\ canStartGame(room)
                        /\ startGameRuns(room, gameLoops)
          IN IF starts
             THEN Commit([heap EXCEPT ![r] = startGame(room, ball)], rooms,
                         [gameLoops EXCEPT ![room.name] = r], timers,
                         <<ToRoom("player-ready-update", room.name),
                           ToRoom("game-state-update", room.name)>>)
             ELSE Commit([heap EXCEPT ![r] = room], rooms, gameLoops, timers,
                         <<ToRoom("player-ready-update", room.name)>>)

\* the room object after handleReturnToLobby's reset
LobbyRoom(room) ==
  [room EXCEPT
     !.gameStatus = IF Len(room.players) = 2 THEN "ready" ELSE "waiting",
     !.winner = NoPlayer,
     !.ball = MkBall(Px(400), Px(200), Px(5), Px(3), Px(200)),
     !.players = [i \in 1..Len(room.players) |->
                    [room.players[i] EXCEPT !.score = 0,
                                            !.isReady = FALSE,
                                            !.paddleY = LobbyPaddleY]]]

\* handleReturnToLobby that resets the first room of the store when the
\* sender is in no room
handleReturnToLobby_AnyRoom(p) ==
  /\ p \in connected
  /\ UNCHANGED connected
  /\ LET r == IF findRoomByPlayerId(heap, rooms, p) = 0 /\ Len(rooms) > 0
              THEN rooms[1]
              ELSE findRoomByPlayerId(heap, rooms, p)
     IN IF r = 0
        THEN Commit(heap, rooms, gameLoops, timers, <<>>)
        ELSE Commit([heap EXCEPT ![r] = LobbyRoom(heap[r])], rooms,
                    stopGame(gameLoops, heap[r].name), timers,
                    <<ToRoom("returned-to-lobby", heap[r].name)>>)

handleReturnToLobby(p) ==
  /\ p \in connected
  /\ UNCHANGED connected
  /\ LET r == findRoomByPlayerId(heap, rooms, p)
     IN IF r = 0
        THEN Commit(heap, rooms, gameLoops, timers, <<>>)
        ELSE Commit([heap EXCEPT ![r] = LobbyRoom(heap[r])], rooms,
                    stopGame(gameLoops, heap[r].name), timers,
                    <<ToRoom("returned-to-lobby", heap[r].name)>>)

\* -------------------------------------------------- interval and timeouts
\* updateGame on room object r: the room afterwards, the timeouts it
\* scheduled and the events it emitted.  deltaTime is the time since the
\* previous tick, ball the ball resetBall draws if a point is scored.
\* updateGame without the check of the elapsed time
updateGame_NoSkip(r, room, deltaTime, ball) ==
  LET moved == checkPaddleCollisions(updateBallPosition(room.ball, deltaTime),
                                     room.players).ball
      scoring == checkScoringCollisions(moved)
      scored == handleScoring([room EXCEPT !.ball = moved], scoring, ball)
  IN IF scoring = "null"
     THEN [room |-> [room EXCEPT !.ball = moved], timers |-> {},
           out |-> <<ToRoom("game-state-update", room.name)>>]
     ELSE IF Len(room.players) < ScorerIndex(scoring)
     THEN [room |-> [room EXCEPT !.ball = moved], timers |-> {}, out |-> <<>>]
     ELSE [room |-> scored, timers |-> {ScoringTimer(r, scored, scoring)},
           out |-> <<ToRoom("point-scored", room.name)>>]

updateGame(r, room, deltaTime, ball) ==
  LET moved == checkPaddleCollisions(updateBallPosition(room.ball, deltaTime),
                                     room.players).ball
      scoring == checkScoringCollisions(moved)
      scored == handleScoring([room EXCEPT !.ball = moved], scoring, ball)
  IN IF deltaTime > StaleDelta
     THEN [room |-> room, timers |-> {}, out |-> <<>>]
     ELSE IF scoring = "null"
     THEN [room |-> [room EXCEPT !.ball = moved], timers |-> {},
           out |-> <<ToRoom("game-state-update", room.name)>>]
     ELSE IF Len(room.players) < ScorerIndex(scoring)
     THEN [room |-> [room EXCEPT !.ball = moved], timers |-> {}, out |-> <<>>]
     ELSE [room |-> scored, timers |-> {ScoringTimer(r, scored, scoring)},
           out |-> <<ToRoom("point-scored", room.name)>>]

\* k runs of the interval callback, back to back, from the room, scheduled
\* timeouts and emitted events in st
RECURSIVE RunFrames(_, _, _, _, _)
RunFrames(r, st, k, deltaTime, ball) ==
  IF k = 0 THEN st
  ELSE CHOOSE res \in
         { RunFrames(r, [room |-> u.room,
                         timers |-> st.timers \cup u.timers,
                         out |-> st.out \o u.out],
                     k - 1, deltaTime, ball) :
             u \in {updateGame(r, st.room, deltaTime, ball)} } : TRUE

Delay(t) == IF t.kind = "end" THEN END_DELAY ELSE RESUME_DELAY

\* the interval callback registered under room name n runs Frames times.
\* A timeout whose delay is shorter than the time these runs take fires
\* before they are over: the runs do not happen while it is pending.
gameLoop(n, deltaTime, ball) ==
  /\ gameLoops[n] # 0
  /\ \A t \in timers : Frames * deltaTime < Delay(t)
  /\ UNCHANGED connected
  /\ \E u \in {RunFrames(gameLoops[n],
                         [room |-> heap[gameLoops[n]], timers |-> {}, out |-> <<>>],
                         Frames, deltaTime, ball)} :
       Commit([heap EXCEPT ![gameLoops[n]] = u.room], rooms, gameLoops,
                 timers \cup u.timers, u.out)

\* the 1.5 s continuation with an endGame that leaves the loop registered
endGameTimer_NoStop(t) ==
  /\ t \in timers
  /\ t.kind = "end"
  /\ UNCHANGED connected
  /\ Commit([heap EXCEPT ![t.room] = endGame(heap[t.room], t.winner)], rooms,
            gameLoops, timers \ {t},
            <<ToRoom("game-state-update", heap[t.room].name),
              ToRoom("game-ended", heap[t.room].name)>>)

\* the 1.5 s continuation of handleScoring: endGame(room, scoringPlayer.id)
endGameTimer(t) ==
  /\ t \in timers
  /\ t.kind = "end"
  /\ UNCHANGED connected
  /\ Commit([heap EXCEPT ![t.room] = endGame(heap[t.room], t.winner)], rooms,
            stopGame(gameLoops, heap[t.room].name), timers \ {t},
            <<ToRoom("game-state-update", heap[t.room].name),
              ToRoom("game-ended", heap[t.room].name)>>)

\* the 2 s continuation of handleScoring: broadcast if still playing
resumeTimer(t) ==
  /\ t \in timers
  /\ t.kind = "resume"
  /\ UNCHANGED connected
  /\ Commit(heap, rooms, gameLoops, timers \ {t},
            IF heap[t.room].gameStatus = "playing"
            THEN <<ToRoom("game-state-update", heap[t.room].name)>>
            ELSE <<>>)

\* ------------------------------------------------------ the specification
\* The commands the clients send: the three players join room a.
JoinInputs == {<<"p1", "a">>, <<"p2", "a">>, <<"p3", "a">>}

LeaveInputs == {"p1", "p2", "p3"}

DisconnectInputs == {"p2"}

\* paddleY: the two values nearest to the accepted range [0, 320]
PaddleInputs == {<<"p1", -1>>, <<"p2", MaxPaddleY + 1>>}

ReadyInputs == {<<"p1", TRUE>>, <<"p1", FALSE>>, <<"p2", TRUE>>, <<"p2", FALSE>>}

LobbyInputs == {"p1", "p2"}

\* the elapsed times a tick sees: the largest one it accepts and a stale one
TickDeltas == {StaleDelta, StaleDelta + 1}

\* the balls resetBall draws
SpecBalls == {b \in ResetBalls : b.velocityX > 0 /\ b.velocityY < 0}

Next ==
  \/ \E c \in JoinInputs : handleJoinRoom(c[1], c[2])
  \/ \E p \in LeaveInputs : handleLeaveRoom(p)
  \/ \E p \in DisconnectInputs : handleDisconnect(p)
  \/ \E c \in PaddleInputs : handlePaddleMove(c[1], c[2])
  \/ \E c \in ReadyInputs, ball \in SpecBalls : handlePlayerReady(c[1], c[2], ball)
  \/ \E p \in LobbyInputs : handleReturnToLobby(p)
  \/ \E n \in RoomNames, d \in TickDeltas, ball \in SpecBalls : gameLoop(n, d, ball)
  \/ \E t \in timers : endGameTimer(t)
  \/ \E t \in timers : resumeTimer(t)

Spec == Init /\ [][Next]_vars

\* The room store alone: the three players join, leave and disconnect from
\* two rooms; no game is started.
StoreJoinInputs == Players \X RoomNames

StoreNext ==
  \/ \E c \in StoreJoinInputs : handleJoinRoom(c[1], c[2])
  \/ \E p \in Players : handleLeaveRoom(p)
  \/ \E p \in Players : handleDisconnect(p)

StoreSpec == Init /\ [][StoreNext]_vars

\* One game, frame by frame: p1 and p2 have joined room a; they set their
\* ready flags and move their paddles, the interval callback runs one frame
\* at a time and the timeouts fire.
GameInit ==
  /\ heap = [i \in Slots |->
               IF i = 1
               THEN [createInitialGameState("a") EXCEPT
                       !.players = <<NewPlayer("p1"), NewPlayer("p2")>>,
                       !.gameStatus = "ready"]
               ELSE FreeSlot]
  /\ rooms = <<1>>
  /\ gameLoops = [n \in RoomNames |-> 0]
  /\ timers = {}
  /\ connected = Players
  /\ out = <<ToSocket("room-joined", "p2"), ToOthers("player-joined", "a", "p2")>>

\* one run of the interval callback registered under room name n.  A ball
\* served from the centre needs more than 2 s to reach an edge, so the
\* timeout of a point has fired before the next point is scored.
\* one run of the interval callback that broadcasts nothing
tick_Silent(n, deltaTime, ball) ==
  /\ gameLoops[n] # 0
  /\ UNCHANGED connected
  /\ \E u \in {updateGame(gameLoops[n], heap[gameLoops[n]], deltaTime, ball)} :
       /\ timers # {} => u.timers = {}
       /\ Commit([heap EXCEPT ![gameLoops[n]] = u.room], rooms, gameLoops,
                 timers \cup u.timers, <<>>)

\* one run of the interval callback registered under room name n
tick(n, deltaTime, ball) ==
  /\ gameLoops[n] # 0
  /\ UNCHANGED connected
  /\ \E u \in {updateGame(gameLoops[n], heap[gameLoops[n]], deltaTime, ball)} :
       /\ timers # {} => u.timers = {}
       /\ Commit([heap EXCEPT ![gameLoops[n]] = u.room], rooms, gameLoops,
                 timers \cup u.timers, u.out)

GameReadyInputs == {<<"p1", TRUE>>, <<"p2", TRUE>>, <<"p2", FALSE>>}

\* paddleY: the two ends of the accepted range
GamePaddleInputs == {<<"p1", 0>>, <<"p2", MaxPaddleY>>}

\* the balls resetBall draws: served to either side
GameBalls == {b \in ResetBalls : b.velocityY < 0}

GameNext ==
  \/ \E c \in GameReadyInputs, ball \in GameBalls :
       handlePlayerReady(c[1], c[2], ball)
  \/ \E c \in GamePaddleInputs : handlePaddleMove(c[1], c[2])
  \/ \E d \in TickDeltas, ball \in GameBalls : tick("a", d, ball)
  \/ \E t \in timers : endGameTimer(t)
  \/ \E t \in timers : resumeTimer(t)

GameSpec == GameInit /\ [][GameNext]_vars

\* the timeouts fire when their delay has elapsed
GameLiveSpec ==
  /\ GameSpec
  /\ WF_vars(\E t \in timers : endGameTimer(t))
  /\ WF_vars(\E t \in timers : resumeTimer(t))

\* Two rooms: p3 opens room b, p1 and p2 play in room a, and p2 joins
\* room b as well before leaving or disconnecting.
RoomsJoinInputs == {<<"p3", "b">>, <<"p1", "a">>, <<"p2", "a">>, <<"p2", "b">>}

RoomsNext ==
  \/ \E c \in RoomsJoinInputs : handleJoinRoom(c[1], c[2])
  \/ \E c \in {<<"p1", TRUE>>, <<"p2", TRUE>>}, ball \in SpecBalls :
       handlePlayerReady(c[1], c[2], ball)
  \/ \E p \in {"p2"} : handleLeaveRoom(p)
  \/ \E p \in {"p2"} : handleDisconnect(p)

RoomsSpec == Init /\ [][RoomsNext]_vars

\* The commands alone: two players join and leave room a, set their ready
\* flags, return to the lobby and move their paddles to the ends of the
\* accepted range and just past them; no frame runs.
CommandJoinInputs == {<<"p1", "a">>, <<"p2", "a">>}

CommandPaddleInputs ==
  {<<"p1", 0>>, <<"p1", -1>>, <<"p2", MaxPaddleY>>, <<"p2", MaxPaddleY + 1>>}

CommandNext ==
  \/ \E c \in CommandJoinInputs : handleJoinRoom(c[1], c[2])
  \/ \E p \in {"p1", "p2"} : handleLeaveRoom(p)
  \/ \E c \in CommandPaddleInputs : handlePaddleMove(c[1], c[2])
  \/ \E p \in {"p1", "p2"}, ball \in SpecBalls : handlePlayerReady(p, TRUE, ball)
  \/ \E p \in {"p1", "p2"} : handleReturnToLobby(p)

CommandSpec == Init /\ [][CommandNext]_vars

\* Two games side by side: p1 and p2 play in room a, p3 and p4 in room b,
\* and a run of the interval callback may raise an exception inside its try
\* block.  No statement of the block is known to throw; the exception is
\* supplied from outside, at one of the places FaultStages names.
FaultPlayers == Players \cup {"p4"}

FaultInit ==
  /\ heap = [i \in Slots |-> FreeSlot]
  /\ rooms = <<>>
  /\ gameLoops = [n \in RoomNames |-> 0]
  /\ timers = {}
  /\ connected = FaultPlayers
  /\ out = <<>>

\* where the exception is raised: before the moved ball is stored, after it
\* is stored and before the scoring check has acted, or in the broadcast
\* that ends the block
FaultStages == {"updateBallPosition", "checkScoringCollisions", "emit"}

\* the room object when the exception is raised at stage
FaultRoom(r, room, deltaTime, ball, stage) ==
  IF stage = "updateBallPosition" THEN room
  ELSE IF stage = "checkScoringCollisions"
  THEN [room EXCEPT !.ball =
          checkPaddleCollisions(updateBallPosition(room.ball, deltaTime),
                                room.players).ball]
  ELSE updateGame(r, room, deltaTime, ball).room

\* updateGame whose catch block unregisters every loop
updateGameFault_StopsAll(n, deltaTime, ball, stage) ==
  /\ gameLoops[n] # 0
  /\ deltaTime <= StaleDelta
  /\ UNCHANGED connected
  /\ Commit([heap EXCEPT ![gameLoops[n]] =
                FaultRoom(gameLoops[n], heap[gameLoops[n]], deltaTime, ball, stage)],
            rooms, [m \in RoomNames |-> 0], timers, <<>>)

\* one run of the interval callback registered under room name n that
\* raises an exception at stage: the catch block calls stopGame(room.name)
updateGameFault(n, deltaTime, ball, stage) ==
  /\ gameLoops[n] # 0
  /\ deltaTime <= StaleDelta
  /\ UNCHANGED connected
  /\ Commit([heap EXCEPT ![gameLoops[n]] =
                FaultRoom(gameLoops[n], heap[gameLoops[n]], deltaTime, ball, stage)],
            rooms, stopGame(gameLoops, n), timers, <<>>)

FaultJoinInputs == {<<"p1", "a">>, <<"p2", "a">>, <<"p3", "b">>, <<"p4", "b">>}

\* the ball resetBall draws in the two games
FaultBalls == {CHOOSE b \in SpecBalls : TRUE}

FaultNext ==
  \/ \E c \in FaultJoinInputs : handleJoinRoom(c[1], c[2])
  \/ \E p \in FaultPlayers, ball \in FaultBalls : handlePlayerReady(p, TRUE, ball)
  \/ \E n \in RoomNames, ball \in FaultBalls : gameLoop(n, StaleDelta, ball)
  \/ \E n \in RoomNames, ball \in FaultBalls, stage \in FaultStages :
       updateGameFault(n, StaleDelta, ball, stage)
  \/ \E t \in timers : endGameTimer(t)
  \/ \E t \in timers : resumeTimer(t)

FaultSpec == FaultInit /\ [][FaultNext]_vars

\* The RoomManager called directly: createRoom on the two names, next to
\* the joins and leaves of two players.
Thrown(msg) == [ev |-> msg, scope |-> "caller", dest |-> NoName, except |-> NoPlayer]

\* createRoom that replaces the room stored under a taken name
createRoomCall_Overwrite(roomName) ==
  /\ UNCHANGED connected
  /\ IF findRoomByName(heap, rooms, roomName) # 0
     THEN Commit([heap EXCEPT ![findRoomByName(heap, rooms, roomName)] =
                    createInitialGameState(roomName)],
                 rooms, gameLoops, timers, <<>>)
     ELSE /\ HasFreeSlot
          /\ \E c \in {createRoom(heap, rooms, roomName)} :
               Commit(c.heap, c.rooms, gameLoops, timers, <<>>)

\* a call of RoomManager.createRoom(roomName)
createRoomCall(roomName) ==
  /\ UNCHANGED connected
  /\ IF findRoomByName(heap, rooms, roomName) # 0
     THEN Commit(heap, rooms, gameLoops, timers, <<Thrown("already exists")>>)
     ELSE /\ HasFreeSlot
          /\ \E c \in {createRoom(heap, rooms, roomName)} :
               Commit(c.heap, c.rooms, gameLoops, timers, <<>>)

ManagerJoinInputs == {"p1", "p2"} \X RoomNames

ManagerNext ==
  \/ \E n \in RoomNames : createRoomCall(n)
  \/ \E c \in ManagerJoinInputs : handleJoinRoom(c[1], c[2])
  \/ \E p \in {"p1", "p2"} : handleLeaveRoom(p)

ManagerSpec == Init /\ [][ManagerNext]_vars

\* The physics of one frame on chosen balls: p1 and p2 play in room a at 4
\* points each, the ball is near a paddle, a wall or an edge of the field,
\* at one of the speeds the ramp goes through, and the interval callback
\* runs frame by frame until the game has ended.
PhysicsXs == {116, 117, 700, Px(400), Width - 700, Width - 117, Width - 116}

PhysicsYs == {100, BallRadius + 56, 2056, 2300, Height - 100}

PhysicsSpeeds ==
  {INITIAL_SPEED, INITIAL_SPEED + SPEED_INCREASE,
   MAX_SPEED - SPEED_INCREASE, MAX_SPEED}

\* balls that move in one of resetBall's directions at speed s
PhysicsBalls ==
  { MkBall(x, y, d * Quot(s * a[1], 25), e * Quot(s * a[2], 25), s) :
      x \in PhysicsXs, y \in PhysicsYs, d \in {-1, 1}, e \in {-1, 1},
      s \in PhysicsSpeeds, a \in ResetAngles }

PhysicsPaddles == {<<0, LobbyPaddleY>>, <<LobbyPaddleY, MaxPaddleY>>}

PhysicsInit ==
  /\ \E ball \in PhysicsBalls, pad \in PhysicsPaddles :
       heap = [i \in Slots |->
                 IF i = 1
                 THEN [createInitialGameState("a") EXCEPT
                         !.players =
                            <<[id |-> "p1", paddleY |-> pad[1], score |-> 4,
                               isReady |-> TRUE],
                              [id |-> "p2", paddleY |-> pad[2], score |-> 4,
                               isReady |-> TRUE]>>,
                         !.ball = ball,
                         !.gameStatus = "playing"]
                 ELSE FreeSlot]
  /\ rooms = <<1>>
  /\ gameLoops = [n \in RoomNames |-> IF n = "a" THEN 1 ELSE 0]
  /\ timers = {}
  /\ connected = Players
  /\ out = <<ToRoom("game-state-update", "a")>>

PhysicsNext ==
  \/ \E ball \in GameBalls : tick("a", StaleDelta, ball)
  \/ \E t \in timers : endGameTimer(t)

PhysicsSpec == PhysicsInit /\ [][PhysicsNext]_vars

\* speed^2 = velocityX^2 + velocityY^2, to within 1 % of speed^2
SpeedInvariant(ball) ==
  100 * Abs(ball.velocityX * ball.velocityX + ball.velocityY * ball.velocityY
            - ball.speed * ball.speed)
    <= ball.speed * ball.speed

\* One game against the clock: p1 and p2 are in room a and set their ready
\* flags, the ball is served at the flattest angle resetBall draws, 0.2 rad
\* (cos 0.980, sin 0.199), which is its fastest way to an edge, and frames
\* of StaleDelta run also while a timeout is pending.
TimedBalls ==
  { MkBall(Width \div 2, Height \div 2,
           d * Quot(INITIAL_SPEED * 980, 1000),
           e * Quot(INITIAL_SPEED * 199, 1000),
           INITIAL_SPEED) : d \in {-1, 1}, e \in {-1, 1} }

\* the time, in ms, the frames have moved the ball since it was served from
\* the centre, for a ball that has hit no paddle since
SinceServe(ball) ==
  Quot(Abs(ball.x - Width \div 2) * 1000, Abs(ball.velocityX))

\* one run of the interval callback, whenever the loop is registered
timedTick_Untimed(n, deltaTime, ball) ==
  /\ gameLoops[n] # 0
  /\ UNCHANGED connected
  /\ \E u \in {updateGame(gameLoops[n], heap[gameLoops[n]], deltaTime, ball)} :
       Commit([heap EXCEPT ![gameLoops[n]] = u.room], rooms, gameLoops,
              timers \cup u.timers, u.out)

\* one run of the interval callback registered under room name n.  The
\* endGame timeout was set when the ball was served and runs END_DELAY
\* later, before any interval callback that is due after it: a frame runs
\* only if it ends within END_DELAY of the serve.
timedTick(n, deltaTime, ball) ==
  /\ gameLoops[n] # 0
  /\ \A t \in timers :
       (t.kind = "end" /\ t.room = gameLoops[n])
       => SinceServe(heap[gameLoops[n]].ball) + deltaTime <= END_DELAY
  /\ UNCHANGED connected
  /\ \E u \in {updateGame(gameLoops[n], heap[gameLoops[n]], deltaTime, ball)} :
       Commit([heap EXCEPT ![gameLoops[n]] = u.room], rooms, gameLoops,
              timers \cup u.timers, u.out)

TimedNext ==
  \/ \E p \in {"p1", "p2"}, ball \in TimedBalls : handlePlayerReady(p, TRUE, ball)
  \/ \E ball \in TimedBalls : timedTick("a", StaleDelta, ball)
  \/ \E t \in timers : endGameTimer(t)
  \/ \E t \in timers : resumeTimer(t)

TimedSpec == GameInit /\ [][TimedNext]_vars

\* --------------------------------------------- the GameEngine's interface
\* The public methods of GameEngine, called with the room the store holds
\* under name n.
startGameCall(n, ball) ==
  /\ findRoomByName(heap, rooms, n) # 0
  /\ UNCHANGED connected
  /\ LET r == findRoomByName(heap, rooms, n)
     IN IF startGameRuns(heap[r], gameLoops)
        THEN Commit([heap EXCEPT ![r] = startGame(heap[r], ball)], rooms,
                    [gameLoops EXCEPT ![n] = r], timers,
                    <<ToRoom("game-state-update", n)>>)
        ELSE Commit(heap, rooms, gameLoops, timers, <<>>)

\* stopGame that also marks the room paused
stopGameCall_Pauses(n) ==
  /\ UNCHANGED connected
  /\ Commit([i \in Slots |->
               IF i = findRoomByName(heap, rooms, n)
               THEN [heap[i] EXCEPT !.gameStatus = "paused"]
               ELSE heap[i]],
            rooms, stopGame(gameLoops, n), timers, <<>>)

stopGameCall(n) ==
  /\ UNCHANGED connected
  /\ Commit(heap, rooms, stopGame(gameLoops, n), timers, <<>>)

pauseGame(n) ==
  /\ findRoomByName(heap, rooms, n) # 0
  /\ UNCHANGED connected
  /\ LET r == findRoomByName(heap, rooms, n)
     IN Commit([heap EXCEPT ![r].gameStatus = "paused"], rooms,
               stopGame(gameLoops, n), timers,
               <<ToRoom("game-state-update", n)>>)

\* resumeGame without its test of the status
resumeGame_Always(n, ball) ==
  /\ findRoomByName(heap, rooms, n) # 0
  /\ UNCHANGED connected
  /\ LET r == findRoomByName(heap, rooms, n)
         room == [heap[r] EXCEPT !.gameStatus = "playing"]
     IN IF startGameRuns(room, gameLoops)
        THEN Commit([heap EXCEPT ![r] = startGame(room, ball)], rooms,
                    [gameLoops EXCEPT ![n] = r], timers,
                    <<ToRoom("game-state-update", n)>>)
        ELSE Commit([heap EXCEPT ![r] = room], rooms, gameLoops, timers, <<>>)

resumeGame(n, ball) ==
  /\ findRoomByName(heap, rooms, n) # 0
  /\ UNCHANGED connected
  /\ LET r == findRoomByName(heap, rooms, n)
         room == [heap[r] EXCEPT !.gameStatus = "playing"]
     IN IF heap[r].gameStatus # "paused"
        THEN Commit(heap, rooms, gameLoops, timers, <<>>)
        ELSE IF startGameRuns(room, gameLoops)
        THEN Commit([heap EXCEPT ![r] = startGame(room, ball)], rooms,
                    [gameLoops EXCEPT ![n] = r], timers,
                    <<ToRoom("game-state-update", n)>>)
        ELSE Commit([heap EXCEPT ![r] = room], rooms, gameLoops, timers, <<>>)

\* ball is the ball createInitialBall draws
resetGame(n, ball) ==
  /\ findRoomByName(heap, rooms, n) # 0
  /\ UNCHANGED connected
  /\ LET r == findRoomByName(heap, rooms, n)
     IN Commit([heap EXCEPT
                  ![r].gameStatus = "ready",
                  ![r].winner = NoPlayer,
                  ![r].ball = ball,
                  ![r].players = [i \in 1..Len(heap[r].players) |->
                                    [heap[r].players[i] EXCEPT !.score = 0,
                                                               !.isReady = FALSE]]],
               rooms, stopGame(gameLoops, n), timers,
               <<ToRoom("game-state-update", n)>>)

\* clearInterval on every registered loop; the registry is cleared
destroy ==
  /\ UNCHANGED connected
  /\ Commit(heap, rooms, [n \in RoomNames |-> 0], timers, <<>>)

\* Two players come and go in room a while the engine's methods are called
\* on it.
EngineJoinInputs == {<<"p1", "a">>, <<"p2", "a">>}

EngineNames == {"a"}

EngineNext ==
  \/ \E c \in EngineJoinInputs : handleJoinRoom(c[1], c[2])
  \/ \E p \in {"p2"} : handleLeaveRoom(p)
  \/ \E ball \in ResetBalls : handlePlayerReady("p1", TRUE, ball)
  \/ \E n \in EngineNames, ball \in ResetBalls : startGameCall(n, ball)
  \/ \E n \in EngineNames : stopGameCall(n)
  \/ \E n \in EngineNames : pauseGame(n)
  \/ \E n \in EngineNames, ball \in ResetBalls : resumeGame(n, ball)
  \/ \E n \in EngineNames, ball \in ResetBalls : resetGame(n, ball)
  \/ destroy
  \/ \E p \in {"p1"} : handleReturnToLobby(p)
  \/ \E n \in EngineNames, ball \in SpecBalls : gameLoop(n, StaleDelta, ball)
  \/ \E t \in timers : endGameTimer(t)
  \/ \E t \in timers : resumeTimer(t)

EngineSpec == Init /\ [][EngineNext]_vars

\* ------------------------------------------------------------ the claims
StoreRooms == SeqToSet(rooms)

Emitted(events, e) == \E i \in 1..Len(events) : events[i].ev = e

\* the step runs the continuation of timeout t
Fires(t) == t \in timers /\ t \notin timers'

\* C1: every room in the store has at most 2 players
C1_AtMostTwoPlayers ==
  \A r \in StoreRooms : Len(heap[r].players) <= MAX_PLAYERS

\* a full room whose game has run to its end
C1_Witness ==
  \E r \in StoreRooms :
    Len(heap[r].players) = MAX_PLAYERS /\ heap[r].gameStatus = "finished"

\* the step handles a join-room of player p for room n, which is in the store
JoinsExisting(p, n) ==
  /\ handleJoinRoom(p, n)
  /\ findRoomByName(heap, rooms, n) # 0

RoomNamed(n) == heap[findRoomByName(heap, rooms, n)]

\* C2 (as claimed): the 1.5 s continuation of a room that was reset to the
\* lobby, or that a player left, since the winning point does nothing: no
\* status finished, no winner, no loop stopped, no game-ended
C2_StaleEndTimerDoesNothing ==
  [][\A t \in timers :
       (/\ Fires(t)
        /\ t.kind = "end"
        /\ heap[t.room].gameStatus \in {"waiting", "ready"})
       => /\ gameLoops' = gameLoops
          /\ ~Emitted(out', "game-ended")
          /\ t.room \in StoreRooms =>
               /\ heap'[t.room].gameStatus # "finished"
               /\ heap'[t.room].winner = heap[t.room].winner]_vars

\* C3 (as claimed): when endGame sets a room finished and emits game-ended,
\* the winner it records is a player of the room whose score is 5
C3_WinnerHasFivePoints ==
  [][\A t \in timers :
       (Fires(t) /\ t.kind = "end" /\ Emitted(out', "game-ended"))
       => \E i \in 1..Len(heap[t.room].players) :
            /\ heap[t.room].players[i].id = t.winner
            /\ heap[t.room].players[i].score = WINNING_SCORE]_vars

\* C4 (as claimed): a room with fewer than 2 players has status waiting
C4_BelowCapacityIsWaiting ==
  \A r \in StoreRooms :
    Len(heap[r].players) < MAX_PLAYERS => heap[r].gameStatus = "waiting"

\* C5 (as claimed): a timeout scheduled for a room that is no longer in the
\* store changes no room, stops no loop and emits nothing when it fires
C5_NoTimerAfterRoomDeleted ==
  [][\A t \in timers :
       (Fires(t) /\ t.room \notin StoreRooms)
       => /\ gameLoops' = gameLoops
          /\ out' = <<>>
          /\ \A r \in StoreRooms : heap'[r] = heap[r]]_vars

\* C6 (as claimed): a timeout of one room object leaves every other room
\* object and the tick loop of every other room object alone, also when the
\* other object was created under the same name
C6_TimerKeepsToItsRoom ==
  [][\A t \in timers :
       Fires(t)
       => /\ \A r \in StoreRooms \ {t.room} : heap'[r] = heap[r]
          /\ \A n \in RoomNames :
               gameLoops[n] \notin {0, t.room} => gameLoops'[n] = gameLoops[n]]_vars

\* C7 (as claimed): a join-room by a player who is already in the room is
\* not answered with room-full, also when the room holds 2 players
C7_RejoinIsNoError ==
  [][\A c \in JoinInputs :
       (JoinsExisting(c[1], c[2]) /\ c[1] \in Ids(RoomNamed(c[2]).players))
       => ~Emitted(out', "room-full")]_vars

\* C8: a join-room by a player who is already in the room leaves the room's
\* player list as it was
C8_RejoinKeepsPlayers ==
  [][\A c \in JoinInputs :
       (JoinsExisting(c[1], c[2]) /\ c[1] \in Ids(RoomNamed(c[2]).players))
       => /\ findRoomByName(heap', rooms', c[2]) = findRoomByName(heap, rooms, c[2])
          /\ heap'[findRoomByName(heap, rooms, c[2])].players
               = RoomNamed(c[2]).players]_vars

\* a player who had set the ready flag has joined the room again, alone in it
C8_Witness ==
  \E r \in StoreRooms :
    /\ Len(heap[r].players) = 1
    /\ heap[r].players[1].isReady
    /\ Len(out) > 0
    /\ out[1] = ToSocket("room-joined", heap[r].players[1].id)

\* C9: a join-room for a room that holds 2 other players is answered with
\* room-full to the caller alone and changes nothing
C9_FullRoomRejects ==
  [][\A c \in JoinInputs :
       (/\ JoinsExisting(c[1], c[2])
        /\ Len(RoomNamed(c[2]).players) = MAX_PLAYERS
        /\ c[1] \notin Ids(RoomNamed(c[2]).players))
       => /\ out' = <<ToSocket("room-full", c[1])>>
          /\ UNCHANGED <<heap, rooms, gameLoops, timers>>]_vars

\* the third player has just been turned away from a room of two others
C9_Witness ==
  /\ out = <<ToSocket("room-full", "p3")>>
  /\ \E r \in StoreRooms :
       Len(heap[r].players) = MAX_PLAYERS /\ "p3" \notin Ids(heap[r].players)

\* C10 (as claimed): after leave-room or disconnect of a player, the player
\* is in no room's player list
C10_GoneAfterLeave ==
  [][\A p \in Players :
       (handleLeaveRoom(p) \/ handleDisconnect(p))
       => \A i \in 1..Len(rooms') : p \notin Ids(heap'[rooms'[i]].players)]_vars

\* the rooms that are in the store before and after the step
Kept == StoreRooms \cap SeqToSet(rooms')

\* C11: a room goes from waiting to ready exactly in the step that brings
\* it to 2 players, and from ready or playing to waiting exactly in the step
\* that brings it below 2 players
C11_StatusFollowsPlayerCount ==
  [][\A r \in Kept :
       LET before == heap[r]
           after == heap'[r]
           reaches == Len(before.players) < MAX_PLAYERS
                        /\ Len(after.players) = MAX_PLAYERS
           drops == Len(before.players) >= MAX_PLAYERS
                      /\ Len(after.players) < MAX_PLAYERS
       IN /\ (before.gameStatus = "waiting" /\ after.gameStatus = "ready")
               => reaches
          /\ (before.gameStatus = "waiting" /\ reaches)
               => after.gameStatus = "ready"
          /\ (before.gameStatus \in {"ready", "playing"}
                /\ after.gameStatus = "waiting") => drops
          /\ (before.gameStatus \in {"ready", "playing"} /\ drops)
               => after.gameStatus = "waiting"]_vars

\* a player has left a game in which the other had scored: the room is
\* back to waiting, and the third player has brought it to ready again
C11_Witness ==
  \E r \in StoreRooms :
    /\ heap[r].gameStatus = "ready"
    /\ Len(heap[r].players) = MAX_PLAYERS
    /\ heap[r].players[1].score > 0
    /\ heap[r].players[2].id = "p3"
    /\ out = <<ToSocket("room-joined", "p3"), ToOthers("player-joined", "a", "p3")>>

\* C12: after every client command the store holds no room without players
C12_NoEmptyRoom ==
  \A r \in StoreRooms : Len(heap[r].players) > 0

\* the last player of the only room has left and the room is gone
C12_Witness ==
  /\ rooms = <<>>
  /\ Emitted(out, "room-left")

\* C13: startGame on a room that has a loop registered under its name, or
\* fewer than 2 players, changes nothing: status, ball, scores, ready flags
\* and the loop registry stay as they were and nothing is broadcast
C13_StartIsNoOp ==
  [][\A n \in EngineNames, ball \in ResetBalls :
       (/\ startGameCall(n, ball)
        /\ \/ gameLoops[n] # 0
           \/ Len(RoomNamed(n).players) < 2)
       => /\ UNCHANGED <<heap, rooms, gameLoops, timers>>
          /\ out' = <<>>]_vars

\* startGame has been called on the running game of room a
C13_Witness ==
  /\ gameLoops["a"] # 0
  /\ heap[gameLoops["a"]].gameStatus = "playing"
  /\ out = <<>>

\* the room of player p once handlePlayerReady has stored the flag
FlagSet(p, isReady) ==
  LET room == heap[findRoomByPlayerId(heap, rooms, p)]
  IN [room EXCEPT !.players[IndexOf(room.players, p)].isReady = isReady]

\* the step starts the game of room object r: it becomes playing and its
\* loop is registered
Starts(r) ==
  /\ heap[r].gameStatus # "playing"
  /\ heap'[r].gameStatus = "playing"
  /\ gameLoops[heap[r].name] = 0
  /\ gameLoops'[heap[r].name] = r

\* C14: player-ready starts the game if and only if, with the sender's flag
\* stored, the room has exactly 2 players, all are ready and the status is
\* ready; canStartGame is true in exactly these cases; and no step other
\* than a player-ready makes a room playing
C14_ReadyStartsGame ==
  [][/\ \A c \in ReadyInputs, ball \in SpecBalls :
          (/\ handlePlayerReady(c[1], c[2], ball)
           /\ findRoomByPlayerId(heap, rooms, c[1]) # 0)
          => LET room == FlagSet(c[1], c[2])
                 both == /\ Len(room.players) = 2
                         /\ \A i \in 1..Len(room.players) : room.players[i].isReady
                         /\ room.gameStatus = "ready"
             IN /\ Starts(findRoomByPlayerId(heap, rooms, c[1])) <=> both
                /\ canStartGame(room) <=> both
     /\ \A r \in Kept :
          (heap[r].gameStatus # "playing" /\ heap'[r].gameStatus = "playing")
          => \E c \in ReadyInputs, ball \in SpecBalls :
               handlePlayerReady(c[1], c[2], ball)]_vars

\* the second ready flag has started the game
C14_Witness ==
  \E r \in StoreRooms :
    /\ heap[r].gameStatus = "playing"
    /\ gameLoops[heap[r].name] = r
    /\ out = <<ToRoom("player-ready-update", heap[r].name),
               ToRoom("game-state-update", heap[r].name)>>

\* C15: right after a start the room is playing, its ball is at the centre
\* (400, 200) with speed 200, every score is 0 and a loop is registered
\* under its name
C15_StateAfterStart ==
  [][\A r \in Kept :
       Starts(r)
       => /\ heap'[r].ball.x = Px(400)
          /\ heap'[r].ball.y = Px(200)
          /\ heap'[r].ball.speed = Px(200)
          /\ \A i \in 1..Len(heap'[r].players) : heap'[r].players[i].score = 0
          /\ gameLoops'[heap'[r].name] = r]_vars

\* a game has started in a room in which a point had been scored, in the
\* game before, less than 2 s earlier
C15_Witness ==
  \E r \in StoreRooms :
    /\ heap[r].gameStatus = "playing"
    /\ \E t \in timers : t.kind = "resume" /\ t.room = r
    /\ \A i \in 1..Len(heap[r].players) : heap[r].players[i].score = 0
    /\ heap[r].ball.x = Px(400)
    /\ Emitted(out, "player-ready-update")
    /\ Emitted(out, "game-state-update")

\* the edge the ball of room leaves in a frame of deltaTime, "null" if none
ScoringSide(room, deltaTime) ==
  checkScoringCollisions(
    checkPaddleCollisions(updateBallPosition(room.ball, deltaTime),
                          room.players).ball)

\* C16: a frame that sees the ball leave the left edge gives the second
\* player 1 point, one that sees it leave the right edge gives the first
\* player 1 point; the other player is unchanged, the ball is served anew
\* from the centre with speed 200 and one point-scored event is emitted
C16_PointToOppositeSide ==
  [][\A d \in TickDeltas, ball \in GameBalls :
       (/\ tick("a", d, ball)
        /\ d <= StaleDelta
        /\ ScoringSide(heap[gameLoops["a"]], d) # "null")
       => LET r == gameLoops["a"]
              i == IF ScoringSide(heap[r], d) = "left" THEN 2 ELSE 1
          IN /\ heap'[r].players[i].score = heap[r].players[i].score + 1
             /\ heap'[r].players[i].id = heap[r].players[i].id
             /\ heap'[r].players[3 - i] = heap[r].players[3 - i]
             /\ heap'[r].ball.x = Px(400)
             /\ heap'[r].ball.y = Px(200)
             /\ heap'[r].ball.speed = Px(200)
             /\ out' = <<ToRoom("point-scored", "a")>>]_vars

\* the ball has left the left edge with the left paddle moved to the top,
\* after the first player had scored too
C16_Witness ==
  /\ out = <<ToRoom("point-scored", "a")>>
  /\ heap[1].players[1].score > 0
  /\ heap[1].players[2].score > 0
  /\ heap[1].players[1].paddleY = 0
  /\ heap[1].ball.velocityX > 0
  /\ \E t \in timers : t.kind = "resume"

\* the timeouts of a winning point
EndTimers == {[kind |-> "end", room |-> r, winner |-> p] : r \in Slots, p \in Players}

\* the game of timeout t has been ended for its scorer
Ended(t) ==
  /\ heap[t.room].gameStatus = "finished"
  /\ heap[t.room].winner = t.winner
  /\ gameLoops[heap[t.room].name] = 0
  /\ \A i \in 1..Len(heap[t.room].players) : ~heap[t.room].players[i].isReady
  /\ \E i \in 1..Len(heap[t.room].players) :
       /\ heap[t.room].players[i].id = t.winner
       /\ heap[t.room].players[i].score = WINNING_SCORE
  /\ out = <<ToRoom("game-state-update", heap[t.room].name),
             ToRoom("game-ended", heap[t.room].name)>>

\* C17: in a game that nobody leaves or resets, the point that brings the
\* scorer to 5 is followed, in a later step, by a state with no loop
\* registered, status finished, the scorer as winner, every ready flag false
\* and game-ended emitted; the step of the point-scored event itself leaves
\* the room playing
C17_WinningPointEndsGame ==
  /\ \A t \in EndTimers : (t \in timers) ~> Ended(t)
  /\ [](Emitted(out, "point-scored")
          => /\ ~Emitted(out, "game-ended")
             /\ \A r \in StoreRooms : heap[r].gameStatus = "playing")

\* the second player has won 5:4
C17_Witness ==
  /\ heap[1].gameStatus = "finished"
  /\ heap[1].winner = "p2"
  /\ heap[1].players[2].score = WINNING_SCORE
  /\ heap[1].players[1].score = WINNING_SCORE - 1
  /\ Emitted(out, "game-ended")

\* C18 (as claimed): while the 2 s timeout of a point is pending, no frame
\* moves the ball of its room and no game-state-update is broadcast
C18_NoFrameInGracePeriod ==
  [][\A t \in timers :
       (t.kind = "resume" /\ t \in timers')
       => /\ heap'[t.room].ball = heap[t.room].ball
          /\ ~Emitted(out', "game-state-update")]_vars

\* C19: a room that is finished has no loop registered under its name, and
\* no step that leaves it finished changes its ball
C19_FinishedBallRests ==
  [][\A r \in StoreRooms :
       heap[r].gameStatus = "finished"
       => /\ gameLoops[heap[r].name] = 0
          /\ (r \in Kept /\ heap'[r].gameStatus = "finished")
               => heap'[r].ball = heap[r].ball]_vars

\* a player has sent player-ready in the finished room
C19_Witness ==
  \E r \in StoreRooms :
    /\ heap[r].gameStatus = "finished"
    /\ \E i \in 1..Len(heap[r].players) : heap[r].players[i].isReady
    /\ out = <<ToRoom("player-ready-update", heap[r].name)>>

\* C20 (as claimed): a room that is finished stays finished unless a player
\* sends return-to-lobby or leaves: player-ready and paddle-move keep the
\* status and start no game
C20_FinishedUntilReset ==
  [][\A r \in StoreRooms :
       (heap[r].gameStatus = "finished"
          /\ (r \notin SeqToSet(rooms') \/ heap'[r].gameStatus # "finished"))
       => \/ \E p \in LobbyInputs : handleReturnToLobby(p)
          \/ \E p \in LeaveInputs : handleLeaveRoom(p)
          \/ \E p \in DisconnectInputs : handleDisconnect(p)]_vars

\* C21 (as claimed): destroy leaves no loop registered and no timeout
\* pending whose continuation would still change a room or broadcast
C21_DestroyCancelsAll ==
  [][destroy
       => /\ \A n \in RoomNames : gameLoops'[n] = 0
          /\ \A t \in timers' :
               /\ t.kind = "end"
                    => endGame(heap'[t.room], t.winner) = heap'[t.room]
               /\ t.kind = "resume"
                    => heap'[t.room].gameStatus # "playing"]_vars

\* the room of the store under name n, after a reset to the lobby
InLobby(n) ==
  LET before == RoomNamed(n)
      after == heap'[findRoomByName(heap, rooms, n)]
  IN /\ gameLoops'[n] = 0
     /\ after.gameStatus =
          IF Len(before.players) = 2 THEN "ready" ELSE "waiting"
     /\ Len(after.players) = Len(before.players)
     /\ \A i \in 1..Len(after.players) :
          /\ after.players[i].id = before.players[i].id
          /\ after.players[i].score = 0
          /\ ~after.players[i].isReady
     /\ after.winner = NoPlayer
     /\ after.ball.x = Px(400)
     /\ after.ball.y = Px(200)

\* C23 (as claimed): return-to-lobby and resetGame leave the room with no
\* loop, status ready with 2 players and waiting otherwise, every score 0,
\* every ready flag false, no winner and the ball at the centre
C23_ResetToLobby ==
  [][/\ \A p \in {"p1"} :
          (handleReturnToLobby(p) /\ findRoomByPlayerId(heap, rooms, p) # 0)
          => InLobby(heap[findRoomByPlayerId(heap, rooms, p)].name)
     /\ \A n \in EngineNames, ball \in ResetBalls :
          resetGame(n, ball) => InLobby(n)]_vars

\* C28: pauseGame unregisters the loop of the room and sets it paused
\* without changing its ball or its players; resumeGame on a room that is
\* not paused changes nothing
C28_PauseAndResume ==
  [][\A n \in EngineNames :
       /\ pauseGame(n)
            => LET r == findRoomByName(heap, rooms, n)
               IN /\ gameLoops'[n] = 0
                  /\ heap'[r].gameStatus = "paused"
                  /\ heap'[r].ball = heap[r].ball
                  /\ heap'[r].players = heap[r].players
       /\ \A ball \in ResetBalls :
            (resumeGame(n, ball) /\ RoomNamed(n).gameStatus # "paused")
            => /\ UNCHANGED <<heap, rooms, gameLoops, timers>>
               /\ out' = <<>>]_vars

\* a game in which a point has been scored is paused
C28_Witness ==
  \E r \in StoreRooms :
    /\ heap[r].gameStatus = "paused"
    /\ heap[r].players[1].score > 0
    /\ gameLoops[heap[r].name] = 0
    /\ out = <<ToRoom("game-state-update", heap[r].name)>>

\* C30: stopGame changes no room; without a registered loop it changes
\* nothing at all, and a second stopGame changes nothing after the first
C30_StopIsIdempotent ==
  [][\A n \in EngineNames :
       stopGameCall(n)
       => /\ \A r \in StoreRooms : heap'[r] = heap[r]
          /\ rooms' = rooms
          /\ timers' = timers
          /\ out' = <<>>
          /\ gameLoops[n] = 0 => gameLoops' = gameLoops
          /\ gameLoops'[n] = 0
          /\ stopGame(gameLoops', n) = gameLoops']_vars

\* the loop of a running game has been stopped: the room is still playing,
\* with the point the first player had scored
C30_Witness ==
  \E r \in StoreRooms :
    /\ heap[r].gameStatus = "playing"
    /\ heap[r].players[1].score > 0
    /\ gameLoops[heap[r].name] = 0
    /\ out = <<>>

\* C22 (as claimed): a disconnect of a player unregisters, in the same
\* step, the loop of every playing room the player is in and makes that
\* room waiting, the player who stays keeps the ready flag; and a step that
\* starts a game leaves a room of 2 players who are all ready
C22_DisconnectStopsGame ==
  [][/\ \A p \in Players, r \in StoreRooms :
          (/\ handleDisconnect(p)
           /\ p \in Ids(heap[r].players)
           /\ heap[r].gameStatus = "playing")
          => /\ gameLoops'[heap[r].name] = 0
             /\ r \in SeqToSet(rooms')
             /\ heap'[r].gameStatus = "waiting"
             /\ heap'[r].players =
                  RemoveAt(heap[r].players, IndexOf(heap[r].players, p))
     /\ \A r \in Kept :
          Starts(r)
          => /\ Len(heap'[r].players) = 2
             /\ \A i \in 1..2 : heap'[r].players[i].isReady]_vars

InNoRoom(p) == findRoomByPlayerId(heap, rooms, p) = 0

\* C24: leave-room, paddle-move, player-ready and return-to-lobby from a
\* connection that is in no room change no room, no loop registration and
\* no player, and emit nothing to another client
C24_OutsiderIsIgnored ==
  [][\A p \in {"p1", "p2"} :
       (/\ InNoRoom(p)
        /\ \/ handleLeaveRoom(p)
           \/ \E c \in CommandPaddleInputs : c[1] = p /\ handlePaddleMove(p, c[2])
           \/ \E ball \in SpecBalls : handlePlayerReady(p, TRUE, ball)
           \/ handleReturnToLobby(p))
       => /\ UNCHANGED <<heap, rooms, gameLoops, timers>>
          /\ \A i \in 1..Len(out') :
               out'[i].scope = "socket" /\ out'[i].dest = p]_vars

\* the first player is playing alone in the room, with the paddle moved
\* and the ready flag set, and a command of the second player, who has
\* left, has been ignored
C24_Witness ==
  /\ InNoRoom("p2")
  /\ \E r \in StoreRooms :
       /\ Ids(heap[r].players) = {"p1"}
       /\ heap[r].players[1].isReady
       /\ heap[r].players[1].paddleY = 0
  /\ out = <<>>

PaddleInRange ==
  \A r \in StoreRooms : \A i \in 1..Len(heap[r].players) :
    heap[r].players[i].paddleY >= 0 /\ heap[r].players[i].paddleY <= MaxPaddleY

\* C25: a paddle-move with a value outside [0, 320] changes nothing and
\* emits nothing, and after every step every paddle is within [0, 320]
C25_PaddleStaysInRange ==
  [][/\ \A c \in CommandPaddleInputs :
          (handlePaddleMove(c[1], c[2]) /\ (c[2] < 0 \/ c[2] > MaxPaddleY))
          => /\ UNCHANGED <<heap, rooms, gameLoops, timers>>
             /\ out' = <<>>
     /\ PaddleInRange']_vars

\* both paddles are at the ends of the range and a further move has been
\* rejected
C25_Witness ==
  /\ \E r \in StoreRooms :
       /\ Len(heap[r].players) = 2
       /\ \E i, j \in 1..2 :
            /\ heap[r].players[i].paddleY = 0
            /\ heap[r].players[j].paddleY = MaxPaddleY
  /\ out = <<>>

\* C26: a run of the interval callback more than 100 ms after the previous
\* one leaves the ball, the scores and the status as they were, schedules
\* nothing and broadcasts nothing
C26_StaleTickIsSkipped ==
  [][\A d \in TickDeltas, ball \in GameBalls :
       (tick("a", d, ball) /\ d > StaleDelta)
       => /\ UNCHANGED <<heap, rooms, gameLoops, timers>>
          /\ out' = <<>>]_vars

\* a game under way, the ball away from the centre, and a skipped run
C26_Witness ==
  /\ gameLoops["a"] # 0
  /\ heap[gameLoops["a"]].gameStatus = "playing"
  /\ heap[gameLoops["a"]].ball.x # Px(Width \div 2)
  /\ out = <<>>

\* C27: a run of the interval callback that is not skipped broadcasts
\* point-scored alone if the ball left an edge, and exactly one
\* game-state-update otherwise
C27_OneBroadcastPerTick ==
  [][\A d \in TickDeltas, ball \in GameBalls :
       (tick("a", d, ball) /\ d <= StaleDelta)
       => out' = IF ScoringSide(heap[gameLoops["a"]], d) # "null"
                 THEN <<ToRoom("point-scored", "a")>>
                 ELSE <<ToRoom("game-state-update", "a")>>]_vars

\* a point has just been scored and announced by point-scored alone
C27_Witness ==
  /\ gameLoops["a"] # 0
  /\ out = <<ToRoom("point-scored", "a")>>
  /\ \E t \in timers : t.room = gameLoops["a"]
  /\ \E i \in 1..2 : heap[gameLoops["a"]].players[i].score > 0

\* C29: a run of the interval callback that raises an exception unregisters
\* the loop of its room; the loop and the state of every other room are as
\* they were, and no pending timeout is lost, so the other rooms go on
C29_FaultStopsOneLoop ==
  [][\A n \in RoomNames, ball \in FaultBalls, stage \in FaultStages :
       updateGameFault(n, StaleDelta, ball, stage)
       => /\ gameLoops'[n] = 0
          /\ timers' = timers
          /\ rooms' = rooms
          /\ \A m \in RoomNames \ {n} :
               /\ gameLoops'[m] = gameLoops[m]
               /\ \A r \in StoreRooms : heap[r].name = m => heap'[r] = heap[r]]_vars

\* room a has lost its loop to an exception while playing, and room b has
\* run its loop since and broadcast its state
C29_Witness ==
  /\ gameLoops["a"] = 0
  /\ gameLoops["b"] # 0
  /\ \E r \in StoreRooms : heap[r].name = "a" /\ heap[r].gameStatus = "playing"
  /\ Emitted(out, "game-state-update")
  /\ \A i \in 1..Len(out) : out[i].dest = "b"
  /\ heap[gameLoops["b"]].ball.x # Px(Width \div 2)

\* C31: createRoom on a name that is taken throws "already exists" and
\* leaves the store and the existing room as they were; on a free name it
\* appends one room of that name with no player and status waiting, and
\* leaves the other rooms as they were
C31_CreateRoom ==
  [][\A n \in RoomNames :
       createRoomCall(n)
       => IF findRoomByName(heap, rooms, n) # 0
          THEN /\ UNCHANGED <<heap, rooms, gameLoops, timers>>
               /\ out' = <<Thrown("already exists")>>
          ELSE /\ Len(rooms') = Len(rooms) + 1
               /\ \A i \in 1..Len(rooms) :
                    rooms'[i] = rooms[i] /\ heap'[rooms[i]] = heap[rooms[i]]
               /\ heap'[rooms'[Len(rooms')]].name = n
               /\ heap'[rooms'[Len(rooms')]].players = <<>>
               /\ heap'[rooms'[Len(rooms')]].gameStatus = "waiting"
               /\ out' = <<>>]_vars

\* createRoom has been refused while the store holds a room with a player
\* and a room that createRoom added, still empty
C31_Witness ==
  /\ out = <<Thrown("already exists")>>
  /\ \E r \in StoreRooms : Len(heap[r].players) > 0
  /\ \E r \in StoreRooms : heap[r].players = <<>> /\ heap[r].gameStatus = "waiting"

\* the ball of room a after updateBallPosition in a frame of StaleDelta
Advanced == updateBallPosition(heap[gameLoops["a"]].ball, StaleDelta)

\* the frame of StaleDelta hits a paddle of room a
PaddleHit ==
  checkPaddleCollisions(Advanced, heap[gameLoops["a"]].players).hit

\* the step is a frame of room a that is not a point
Frame(ball) ==
  /\ tick("a", StaleDelta, ball)
  /\ ScoringSide(heap[gameLoops["a"]], StaleDelta) = "null"

\* C32 (as claimed): after a frame that hits a paddle the vertical velocity
\* of the ball is not 0 and is at least a fifth of the speed the ball had
\* before the hit, wherever on the paddle the ball hit
C32_NeverHorizontal ==
  [][\A ball \in GameBalls :
       (tick("a", StaleDelta, ball) /\ PaddleHit)
       => /\ heap'[gameLoops["a"]].ball.velocityY # 0
          /\ 5 * Abs(heap'[gameLoops["a"]].ball.velocityY)
               >= heap[gameLoops["a"]].ball.speed]_vars

\* C33 (as claimed): the ball of every room in the store has
\* speed^2 = velocityX^2 + velocityY^2, whatever created or changed it last
C33_SpeedMatchesVelocity ==
  \A r \in StoreRooms : SpeedInvariant(heap[r].ball)

\* the horizontal velocity of the ball of room a points away from the
\* paddle the frame hits: right after the left paddle, left after the right
BouncesAway ==
  IF Advanced.velocityX < 0
  THEN heap'[gameLoops["a"]].ball.velocityX > 0
  ELSE heap'[gameLoops["a"]].ball.velocityX < 0

\* C34 (as claimed): a frame that hits a paddle turns the ball away from
\* that paddle and strictly increases its speed, to min(speed + 20, 400),
\* for every speed from 200 to 400
C34_SpeedStrictlyIncreases ==
  [][\A ball \in GameBalls :
       (tick("a", StaleDelta, ball) /\ PaddleHit)
       => /\ BouncesAway
          /\ heap'[gameLoops["a"]].ball.speed > heap[gameLoops["a"]].ball.speed
          /\ heap'[gameLoops["a"]].ball.speed =
               Min(heap[gameLoops["a"]].ball.speed + SPEED_INCREASE, MAX_SPEED)]_vars

\* C34 (amended): a frame that hits a paddle turns the ball away from that
\* paddle and sets its speed to min(speed + 20, 400): strictly more below
\* 400, and unchanged at 400
C34_SpeedRamp ==
  [][\A ball \in GameBalls :
       (tick("a", StaleDelta, ball) /\ PaddleHit)
       => /\ BouncesAway
          /\ heap'[gameLoops["a"]].ball.speed =
               Min(heap[gameLoops["a"]].ball.speed + SPEED_INCREASE, MAX_SPEED)
          /\ heap[gameLoops["a"]].ball.speed < MAX_SPEED
             => heap'[gameLoops["a"]].ball.speed > heap[gameLoops["a"]].ball.speed
          /\ heap[gameLoops["a"]].ball.speed = MAX_SPEED
             => heap'[gameLoops["a"]].ball.speed = MAX_SPEED]_vars

\* the ball has just been put in front of the left paddle at the maximum
\* speed, moving right
C34_Witness ==
  /\ gameLoops["a"] # 0
  /\ heap[gameLoops["a"]].ball.x = PaddleOffset + PaddleWidth + BallRadius
  /\ heap[gameLoops["a"]].ball.speed = MAX_SPEED
  /\ heap[gameLoops["a"]].ball.velocityX > 0
  /\ out = <<ToRoom("game-state-update", "a")>>

\* the y of the ball of room a after the move of a frame of StaleDelta,
\* before checkWallCollisions
MovedY ==
  heap[gameLoops["a"]].ball.y
    + Quot(heap[gameLoops["a"]].ball.velocityY * StaleDelta, 1000)

TopWallHit == MovedY - BallRadius <= 0

BottomWallHit == MovedY + BallRadius >= Height

\* C35: when the move of a frame takes the ball to a wall, updateBallPosition
\* returns it exactly at the boundary (radius at the top, height - radius
\* at the bottom) with the sign of the vertical velocity reversed and the
\* horizontal velocity as it was; that ball is the ball of the room after
\* the frame unless a paddle is hit or a point is scored in the same frame
C35_WallBounce ==
  [][\A ball \in GameBalls :
       (tick("a", StaleDelta, ball) /\ (TopWallHit \/ BottomWallHit))
       => /\ Advanced.y = IF TopWallHit THEN BallRadius ELSE Height - BallRadius
          /\ Sign(Advanced.velocityY) = -Sign(heap[gameLoops["a"]].ball.velocityY)
          /\ Sign(Advanced.velocityY) # 0
          /\ Advanced.velocityX = heap[gameLoops["a"]].ball.velocityX
          /\ (~PaddleHit /\ ScoringSide(heap[gameLoops["a"]], StaleDelta) = "null")
             => heap'[gameLoops["a"]].ball = Advanced]_vars

\* the ball has just bounced off the top wall: it is at the boundary and
\* moves down, at an x that no chosen ball starts from
C35_Witness ==
  /\ gameLoops["a"] # 0
  /\ heap[gameLoops["a"]].ball.y = BallRadius
  /\ heap[gameLoops["a"]].ball.velocityY > 0
  /\ heap[gameLoops["a"]].ball.x \notin PhysicsXs
  /\ out = <<ToRoom("game-state-update", "a")>>

\* the ball of room a that a frame of StaleDelta hands to the scoring check
Checked ==
  checkPaddleCollisions(Advanced, heap[gameLoops["a"]].players).ball

\* the step gives player i of room a one point and announces it
Point(i) ==
  /\ heap'[gameLoops["a"]].players[i].score
       = heap[gameLoops["a"]].players[i].score + 1
  /\ out' = <<ToRoom("point-scored", "a")>>

\* C36: a frame scores for the left edge exactly when x + radius < 0, for
\* the right edge exactly when x - radius > width, and not at all otherwise:
\* a ball whose edge only touches the boundary does not score
C36_ScoringDetection ==
  [][\A ball \in GameBalls :
       tick("a", StaleDelta, ball)
       => /\ Point(2) <=> Checked.x + BallRadius < 0
          /\ Point(1) <=> Checked.x - BallRadius > Width
          /\ (Checked.x + BallRadius >= 0 /\ Checked.x - BallRadius <= Width)
             => /\ heap'[gameLoops["a"]].players = heap[gameLoops["a"]].players
                /\ heap'[gameLoops["a"]].ball = Checked
                /\ timers' = timers
                /\ out' = <<ToRoom("game-state-update", "a")>>]_vars

\* the edge of the ball touches the left boundary and no point was given
C36_Witness ==
  /\ gameLoops["a"] # 0
  /\ heap[gameLoops["a"]].ball.x + BallRadius = 0
  /\ heap[gameLoops["a"]].gameStatus = "playing"
  /\ \A i \in 1..2 : heap[gameLoops["a"]].players[i].score = 4
  /\ timers = {}
  /\ out = <<ToRoom("game-state-update", "a")>>

\* C37 (as claimed): every room of the store that is playing has a loop
\* registered under its name
C37_PlayingHasLoop ==
  \A r \in StoreRooms :
    heap[r].gameStatus = "playing" => gameLoops[heap[r].name] # 0

\* C38 (as claimed): no player is in the player list of two rooms of the
\* store
C38_OneRoomPerPlayer ==
  \A p \in Players :
    Cardinality({r \in StoreRooms : p \in Ids(heap[r].players)}) <= 1

\* C39 (as claimed): a room of the store has a winner only while it is
\* finished, and the winner is then one of its players
C39_WinnerOnlyWhenFinished ==
  \A r \in StoreRooms :
    heap[r].winner # NoPlayer
    => /\ heap[r].gameStatus = "finished"
       /\ heap[r].winner \in Ids(heap[r].players)

\* C40: no player of a room has more than WINNING_SCORE points, and a
\* frame that runs while the endGame timeout of its room is pending gives
\* no point
C40_ScoreNeverExceedsFive ==
  [][/\ \A i \in Slots : \A k \in 1..Len(heap'[i].players) :
          heap'[i].players[k].score <= WINNING_SCORE
     /\ \A ball \in TimedBalls :
          (/\ timedTick("a", StaleDelta, ball)
           /\ \E t \in timers : t.kind = "end" /\ t.room = gameLoops["a"])
          => /\ \A k \in 1..2 :
                  heap'[gameLoops["a"]].players[k].score
                    = heap[gameLoops["a"]].players[k].score
             /\ out' = <<ToRoom("game-state-update", "a")>>]_vars

\* a player has 5 points, the endGame timeout is pending and the loop has
\* moved the newly served ball for the whole delay
C40_Witness ==
  /\ gameLoops["a"] # 0
  /\ \E k \in 1..2 : heap[gameLoops["a"]].players[k].score = WINNING_SCORE
  /\ \E t \in timers : t.kind = "end" /\ t.room = gameLoops["a"]
  /\ SinceServe(heap[gameLoops["a"]].ball) = END_DELAY
  /\ heap[gameLoops["a"]].gameStatus = "playing"

====
